---- MODULE Spec2Model ----
(***************************************************************************)
(* Model of the sPot frame sampling and offload scripts:                   *)
(*   kvs-to-s3.py    managed-stream mode  (KVSToS3ImageExtractor)          *)
(*   test.py         device-capture mode  (WebcamToS3)                     *)
(*   s3-uploader.py  watch mode           (ImageUploader)                  *)
(*   webcam-to-kvs.py device-capture loop feeding the managed stream       *)
(*                                         (WebcamToKVS)                   *)
(* One behaviour is one process run of one of the scripts; `mode` says     *)
(* which (mode "key": the destination key builders of the scripts applied  *)
(* to drawn inputs).  A local file is a record [name, ext]: in stream and *)
(* device mode name is the capture timestamp and ext the configured image  *)
(* format, in watch mode name numbers the files of the watched directory.  *)
(***************************************************************************)
EXTENDS Integers, Sequences, FiniteSets, TLC

VARIABLES
    mode,            \* "stream" | "device" | "watch" | "webcam" | "key"
    pc,              \* position of the control thread
    image_format,    \* IMAGE_FORMAT / --format
    kvs_stream_name, \* KVS_STREAM_NAME ("" when unset)
    s3_bucket_name,  \* S3_BUCKET_NAME  ("" when unset)
    s3_client,       \* TRUE once boto3.client was created
    gst_init,        \* TRUE once Gst.init ran
    temp_dir,        \* TRUE while the scratch directory exists
    pipeline,        \* "None" | "READY" | "PLAYING" | "NULL"
    streaming,       \* TRUE while the source delivers buffers to the appsink
    bus,             \* bus messages posted and not yet dispatched
    now,             \* the wall clock, in timestamp ticks, as datetime.now() last read it
    frames,          \* frames delivered to the sampling path so far
    files,           \* local files that exist
    tasks,           \* offload tasks, in dispatch order
    listing,         \* cleanup: entries of os.listdir not yet removed
    flow,            \* what the last on_new_sample returned
    log,             \* messages logged by the last step
    lastOffload,     \* the offload operation that finished last
    osFault,         \* TRUE once the OS refused a removal that was possible
    delete_after_upload, \* watch mode: not --keep-files
    processed_files, \* watch mode: the dedup set
    attempts,        \* watch mode: the paths _upload_file was called for, in call order
    evictedNow,      \* watch mode: the last step was an on_created that evicted
    evictions,       \* watch mode: evictions so far
    events,          \* watch mode: file-create events handled so far
    lastEvent,       \* watch mode: the event on_created handled last
    existing,        \* watch mode: image files the startup pass found (-1 before it)
    pace,            \* capture loops: interval, start of the cycle, gap to the cycle
                     \* before, work and sleep of the last finished cycle
    imwrite,         \* what the last cv2.imwrite did
    s3_prefix,       \* S3_PREFIX / --prefix as configured
    timestamp,       \* the strftime("%Y%m%d_%H%M%S_%f") text of the artifact
    upload_path,     \* watch mode: the path handed to _upload_file
    s3_key,          \* the destination key built last
    unmaps           \* calls of buffer.unmap made by the last step

cfgVars == <<mode, image_format, kvs_stream_name, s3_bucket_name, delete_after_upload>>
resVars == <<s3_client, gst_init, temp_dir>>
gstVars == <<pipeline, streaming, bus, flow>>
watchVars == <<processed_files, attempts, evictedNow, evictions, events, lastEvent,
               existing>>
keyVars == <<s3_prefix, timestamp, upload_path, s3_key>>

vars == <<mode, pc, image_format, kvs_stream_name, s3_bucket_name, s3_client,
          gst_init, temp_dir, pipeline, streaming, bus, now, frames, files, tasks,
          listing, flow, log, lastOffload, osFault, delete_after_upload,
          processed_files, attempts, evictedNow, evictions, events, lastEvent,
          existing, pace, imwrite, s3_prefix, timestamp, upload_path, s3_key,
          unmaps>>

-----------------------------------------------------------------------------
(* Bounds of the model *)
MaxFrames == 2

MaxReads == 3

(* Inputs *)
Formats == {"jpg", "png"}
StreamNames == {"", "cam1"}
BucketNames == {"", "bucket"}
ImwriteOutcomes == {"ok", "false", "raise"}
\* ticks of the timestamp clock between two reads of datetime.now(): the same
\* microsecond, or a later one
ClockSteps == {0, 1}

(* s3-uploader.py, lines 62-63 *)
MaxProcessed == 1000
KeepProcessed == 500

MaxEvents == 2
InitialDirSizes == {0, 2, 1000, 1001}
StartupStoreChoices == {"all_ok", "last_fails", "all_fail"}
InsertSlots == {"back", "front"}

ImagePath(n) == [name |-> n, ext |-> "jpg"]
\* a subdirectory of the watched directory, whose name ends like an image
WatchSubdirs == {[name |-> 0, ext |-> "png"]}
\* the watched directory at startup: n image files and one other file
InitialDir(n) == {ImagePath(i) : i \in 1..n} \cup {[name |-> -1, ext |-> "txt"]}
\* the file-create events the observer can deliver
Events ==
    {[src_path |-> ImagePath(n), is_directory |-> FALSE] : n \in {1, 1001}}
    \cup {[src_path |-> [name |-> 1003, ext |-> "JPG"], is_directory |-> FALSE],
          [src_path |-> [name |-> -2, ext |-> "txt"], is_directory |-> FALSE],
          [src_path |-> [name |-> 0, ext |-> "png"], is_directory |-> TRUE]}

\* test.py --interval, in clock ticks
Intervals == {1, 3}
\* webcam-to-kvs.py: clock ticks per second, --fps, and the statistics window of line 105
TicksPerSecond == 4
FpsChoices == {1, 2, 4}
StatsWindow == 5 * TicksPerSecond
\* ticks one read-encode-send takes: none, one, or a stall as long as the window
WorkSteps == ClockSteps \cup {StatsWindow}

\* destination keys: prefixes as configured, with no, one or two trailing slashes
PrefixStems == {"", "frames", "uploads/images/temp"}
Prefixes == {stem \o tail : stem \in PrefixStems, tail \in {"", "/", "//"}}
Timestamps == {"20240101_120000_000000", "20240101_120000_000001"}
WatchDirs == {"in", "/data/in"}
Filenames == {"a.jpg", "b.PNG"}
\* the fixed subpath of test.py line 91 and s3-uploader.py line 80
FixedSubpath == "sPotVideoAnalysis"

NoFile == [name |-> 0, ext |-> ""]
\* the pacing record before the first cycle of a loop that sleeps `interval`
NoPace(interval) ==
    [interval |-> interval, start |-> -1, gap |-> -1, work |-> -1, sleep |-> -1,
     start_time |-> 0, frame_count |-> 0]
NoEvent == [src_path |-> NoFile, is_directory |-> FALSE, attempted |-> FALSE]
NoOffload == [file |-> NoFile, staged |-> FALSE, existed |-> FALSE, wrote |-> FALSE,
              removal |-> "none", existsAfter |-> FALSE]

-----------------------------------------------------------------------------
(* The lifecycle state of section 4.6 read off the control thread's position *)
Lifecycle ==
    CASE pc \in {"ctor"} -> "Uninitialized"
      [] pc \in {"build", "play", "init_cam", "existing", "open_cam"} -> "ScratchReady"
      [] pc \in {"loop", "capture", "offload", "sleep", "watching", "read", "pace"}
            -> "Running"
      [] pc \in {"stop_pipeline", "listdir", "sweep", "rmdir", "stop_capture",
                 "stop_observer", "stop_streaming"} -> "Draining"
      [] pc \in {"terminated", "exited"} -> "Terminated"
      [] pc \in {"returned"} -> "Returned"
      [] OTHER -> "Aborted"

\* the exit status of the process: no script calls sys.exit on these paths, so a
\* return from start, start_capture or main exits 0, an uncaught exception exits 1
ExitCode ==
    CASE pc \in {"terminated", "returned", "exited"} -> 0
      [] pc \in {"aborted"} -> 1
      [] OTHER -> -1

-----------------------------------------------------------------------------
(* The offload operation: durable write, then removal of the local file.   *)

\* s3_client.upload_file: fails when the local file is missing or the store refuses
PutSucceeds(exists, storeOk) == exists /\ storeOk

\* os.remove(path): "missing" raises FileNotFoundError, "fault" raises another OSError
RemoveOutcome(exists, fault) ==
    IF ~exists THEN "missing" ELSE IF fault THEN "fault" ELSE "ok"

AfterRemoveNoDelete(fs, f, outcome) == fs
\* the local files after os.remove(f) ended with `outcome`
AfterRemove(fs, f, outcome) == IF outcome = "ok" THEN fs \ {f} ELSE fs

AfterFailedPutDeletes(fs, f) == fs \ {f}
\* the local files after the except clause of a failed upload: logged, nothing removed
AfterFailedPut(fs, f) == fs

NewTask(f, isStaged, isAwaited) ==
    [file |-> f, pc |-> "put", staged |-> isStaged, awaited |-> isAwaited,
     existed |-> FALSE]

StreamAwaitsJoined == TRUE
\* threading.Thread(target=self.upload_to_s3, ...).start(): started, never joined
StreamAwaits == FALSE

\* test.py calls s3_client.upload_file inline in capture_and_upload
DeviceAwaits == TRUE

\* the control thread is inside (waiting for) an offload it dispatched
ControlWaiting ==
    \E i \in 1..Len(tasks) : tasks[i].awaited /\ tasks[i].pc \in {"put", "remove"}

Finished(t, didWrite, outcome, fs) ==
    [file |-> t.file, staged |-> t.staged, existed |-> t.existed, wrote |-> didWrite,
     removal |-> outcome, existsAfter |-> t.file \in fs]

-----------------------------------------------------------------------------
(* kvs-to-s3.py *)

ClientWhenValidationFailsCreated == TRUE
\* __init__, lines 32-38: the checks raise before boto3.client is called
ClientWhenValidationFails == FALSE

\* __init__: validate the configuration, then acquire client, framework, scratch dir
KVSToS3ImageExtractor_init ==
    /\ mode = "stream" /\ pc = "ctor"
    /\ IF kvs_stream_name = "" \/ s3_bucket_name = ""
       THEN /\ pc' = "aborted"
            /\ s3_client' = ClientWhenValidationFails
            /\ UNCHANGED <<gst_init, temp_dir>>
       ELSE /\ s3_client' = TRUE
            /\ gst_init' = TRUE
            /\ temp_dir' = TRUE
            /\ pc' = "build"
    /\ log' = {}
    /\ unmaps' = 0
    /\ UNCHANGED <<cfgVars, keyVars,
                   pace, imwrite, gstVars, watchVars, now, frames, files, tasks, listing,
                   lastOffload, osFault>>

\* start, lines 186-188: build_pipeline() returns True or logs and returns False
build_pipeline ==
    /\ mode = "stream" /\ pc = "build"
    /\ \E built \in BOOLEAN :
         IF built
         THEN pipeline' = "READY" /\ pc' = "play" /\ log' = {}
         ELSE pipeline' = pipeline /\ pc' = "returned"
              /\ log' = {"Failed to build pipeline"}
    /\ unmaps' = 0
    /\ UNCHANGED <<cfgVars, keyVars,
                   pace, imwrite, resVars, watchVars, streaming, bus, now, frames, files, tasks,
                   listing, flow, lastOffload, osFault>>

\* start, lines 190-199: set_state(PLAYING), then the main loop is created and run
start_playing ==
    /\ mode = "stream" /\ pc = "play"
    /\ \E ret \in {"SUCCESS", "FAILURE"} :
         IF ret = "SUCCESS"
         THEN pipeline' = "PLAYING" /\ streaming' = TRUE /\ pc' = "loop" /\ log' = {}
         ELSE pipeline' = pipeline /\ streaming' = streaming /\ pc' = "returned"
              /\ log' = {"Failed to start pipeline"}
    /\ unmaps' = 0
    /\ UNCHANGED <<cfgVars, keyVars,
                   pace, imwrite, resVars, watchVars, bus, now, frames, files, tasks, listing,
                   flow, lastOffload, osFault>>

\* what on_new_sample returns for a sample that is absent, unmappable or mapped
FlowReturn(hasSample, mapped) ==
    IF ~hasSample THEN "ERROR" ELSE IF ~mapped THEN "ERROR" ELSE "OK"

\* the calls of buffer.unmap(map_info) one on_new_sample makes: none without a
\* sample, line 105 after a failed map, line 143 (finally) after a successful one
Unmaps(hasSample, mapped) ==
    IF ~hasSample THEN 0 ELSE IF ~mapped THEN 1 ELSE 1

\* the appsink hands a flow error upstream: streaming stops, an error goes to the bus
StreamingAfter(ret, s) == IF ret = "ERROR" THEN FALSE ELSE s
BusAfter(ret, b) == IF ret = "ERROR" THEN b \cup {"error"} ELSE b

\* on_new_sample: the appsink callback, run on the streaming thread
on_new_sample ==
    /\ mode = "stream" /\ pipeline = "PLAYING" /\ streaming
    /\ frames < MaxFrames
    /\ ~ControlWaiting
    /\ \E hasSample \in BOOLEAN, mapped \in BOOLEAN, imw \in ImwriteOutcomes,
          elapsed \in ClockSteps :
         LET ret == FlowReturn(hasSample, mapped)
             stamp == now + elapsed
             f == [name |-> stamp, ext |-> image_format]
         IN /\ flow' = ret
            /\ now' = IF hasSample /\ mapped THEN stamp ELSE now
            /\ (hasSample /\ mapped) \/ elapsed = 0
            /\ streaming' = StreamingAfter(ret, streaming)
            /\ bus' = BusAfter(ret, bus)
            /\ imwrite' = IF hasSample /\ mapped THEN imw ELSE imwrite
            /\ unmaps' = Unmaps(hasSample, mapped)
            /\ IF ~hasSample
               THEN log' = {} /\ UNCHANGED <<files, tasks>>
               ELSE IF ~mapped
               THEN log' = {"Failed to map buffer"} /\ UNCHANGED <<files, tasks>>
               ELSE IF imw = "raise"
               THEN log' = {"Error processing frame"} /\ UNCHANGED <<files, tasks>>
               ELSE /\ files' = IF imw = "ok" THEN files \cup {f} ELSE files
                    /\ tasks' = Append(tasks, NewTask(f, imw = "ok", StreamAwaits))
                    /\ log' = {"Extracted image"}
    /\ frames' = frames + 1
    /\ UNCHANGED <<cfgVars, keyVars, pace, resVars, watchVars, pc, pipeline, listing, lastOffload,
                   osFault>>

\* upload_to_s3, lines 149-164 and 168-169: the durable write of one upload thread
upload_to_s3_put(i) ==
    /\ mode = "stream" /\ tasks[i].pc = "put"
    /\ \E storeOk \in BOOLEAN :
         LET t == [tasks[i] EXCEPT !.existed = tasks[i].file \in files]
             ok == PutSucceeds(t.existed, storeOk)
         IN IF ok
            THEN /\ tasks' = [tasks EXCEPT ![i] = [t EXCEPT !.pc = "remove"]]
                 /\ log' = {"Uploaded to S3"}
                 /\ UNCHANGED <<files, lastOffload>>
            ELSE /\ tasks' = [tasks EXCEPT ![i] = [t EXCEPT !.pc = "done"]]
                 /\ files' = AfterFailedPut(files, t.file)
                 /\ log' = {"Failed to upload to S3"}
                 /\ lastOffload' = Finished(t, FALSE, "none", files')
    /\ unmaps' = 0
    /\ UNCHANGED <<cfgVars, keyVars,
                   pace, imwrite, resVars, gstVars, watchVars, pc, now, frames, listing, osFault>>

\* upload_to_s3, lines 166-169: os.remove of the uploaded file
upload_to_s3_remove(i) ==
    /\ mode = "stream" /\ tasks[i].pc = "remove"
    /\ \E fault \in BOOLEAN :
         LET t == tasks[i]
             outcome == RemoveOutcome(t.file \in files, fault)
         IN /\ files' = AfterRemove(files, t.file, outcome)
            /\ tasks' = [tasks EXCEPT ![i].pc = "done"]
            /\ log' = IF outcome = "ok" THEN {} ELSE {"Failed to upload to S3"}
            /\ osFault' = (osFault \/ outcome = "fault")
            /\ lastOffload' = Finished(t, TRUE, outcome, files')
    /\ unmaps' = 0
    /\ UNCHANGED <<cfgVars, keyVars,
                   pace, imwrite, resVars, gstVars, watchVars, pc, now, frames, listing>>

\* the source ends or fails: streaming stops and the message is posted to the bus;
\* an element can fail while the end of the stream is being announced
SourceMessage ==
    /\ mode = "stream" /\ pipeline = "PLAYING" /\ streaming
    /\ \E msgs \in {{"eos"}, {"error"}, {"eos", "error"}} : bus' = bus \cup msgs
    /\ streaming' = FALSE
    /\ log' = {}
    /\ unmaps' = 0
    /\ UNCHANGED <<cfgVars, keyVars,
                   pace, imwrite, resVars, watchVars, pc, pipeline, now, frames, files, tasks,
                   listing, flow, lastOffload, osFault>>

AfterQuitStaysRunning == "loop"
\* on_error and on_eos call self.loop.quit(): loop.run() returns and the finally
\* clause of start runs cleanup
AfterQuit == "stop_pipeline"

\* on_error: dispatched by the running main loop, quits it
on_error ==
    /\ mode = "stream" /\ pc = "loop" /\ "error" \in bus
    /\ bus' = bus \ {"error"}
    /\ log' = {"Pipeline error"}
    /\ pc' = AfterQuit
    /\ unmaps' = 0
    /\ UNCHANGED <<cfgVars, keyVars,
                   pace, imwrite, resVars, watchVars, pipeline, streaming, now, frames, files,
                   tasks, listing, flow, lastOffload, osFault>>

\* on_eos: dispatched by the running main loop, quits it
on_eos ==
    /\ mode = "stream" /\ pc = "loop" /\ "eos" \in bus
    /\ bus' = bus \ {"eos"}
    /\ log' = {"End of stream reached"}
    /\ pc' = AfterQuit
    /\ unmaps' = 0
    /\ UNCHANGED <<cfgVars, keyVars,
                   pace, imwrite, resVars, watchVars, pipeline, streaming, now, frames, files,
                   tasks, listing, flow, lastOffload, osFault>>

\* start, lines 203-204: KeyboardInterrupt raised out of loop.run()
KeyboardInterrupt_stream ==
    /\ mode = "stream" /\ pc = "loop"
    /\ log' = {"Received keyboard interrupt"}
    /\ pc' = "stop_pipeline"
    /\ unmaps' = 0
    /\ UNCHANGED <<cfgVars, keyVars,
                   pace, imwrite, resVars, gstVars, watchVars, now, frames, files, tasks,
                   listing, lastOffload, osFault>>

\* cleanup, lines 210-214: the pipeline is set to NULL, the streaming thread stops
cleanup_stop_pipeline ==
    /\ mode = "stream" /\ pc = "stop_pipeline"
    /\ pipeline' = "NULL"
    /\ streaming' = FALSE
    /\ log' = {"Cleaning up resources"}
    /\ pc' = "listdir"
    /\ unmaps' = 0
    /\ UNCHANGED <<cfgVars, keyVars,
                   pace, imwrite, resVars, watchVars, bus, now, frames, files, tasks, listing,
                   flow, lastOffload, osFault>>

\* cleanup, line 218: os.listdir(self.temp_dir) is evaluated once, before the loop
cleanup_listdir ==
    /\ mode = "stream" /\ pc = "listdir"
    /\ listing' = files
    /\ pc' = IF files = {} THEN "rmdir" ELSE "sweep"
    /\ log' = {}
    /\ unmaps' = 0
    /\ UNCHANGED <<cfgVars, keyVars,
                   pace, imwrite, resVars, gstVars, watchVars, now, frames, files, tasks,
                   lastOffload, osFault>>

CleanupExceptReraises == "aborted"
\* cleanup, lines 221-222: except Exception logs; cleanup and start then return
CleanupExcept == "terminated"

\* cleanup, lines 218-219 and 221-222: one os.remove of the sweep
cleanup_remove ==
    /\ mode = "stream" /\ pc = "sweep"
    /\ \E f \in listing, fault \in BOOLEAN :
         LET outcome == RemoveOutcome(f \in files, fault)
         IN /\ files' = AfterRemove(files, f, outcome)
            /\ osFault' = (osFault \/ outcome = "fault")
            /\ IF outcome = "ok"
               THEN /\ listing' = listing \ {f}
                    /\ pc' = IF listing' = {} THEN "rmdir" ELSE "sweep"
                    /\ log' = {}
               ELSE /\ listing' = {}
                    /\ pc' = CleanupExcept
                    /\ log' = {"Failed to clean up temporary directory"}
    /\ unmaps' = 0
    /\ UNCHANGED <<cfgVars, keyVars,
                   pace, imwrite, resVars, gstVars, watchVars, now, frames, tasks, lastOffload>>

\* cleanup, lines 220-222: os.rmdir, which fails on a directory that is not empty
cleanup_rmdir ==
    /\ mode = "stream" /\ pc = "rmdir"
    /\ \E fault \in BOOLEAN :
         IF files = {} /\ ~fault
         THEN temp_dir' = FALSE /\ pc' = "terminated" /\ log' = {}
              /\ osFault' = osFault
         ELSE temp_dir' = temp_dir /\ pc' = CleanupExcept
              /\ log' = {"Failed to clean up temporary directory"}
              /\ osFault' = (osFault \/ files = {})
    /\ unmaps' = 0
    /\ UNCHANGED <<cfgVars, keyVars,
                   pace, imwrite, gstVars, watchVars, s3_client, gst_init, now, frames, files,
                   tasks, listing, lastOffload>>

UploadThreadsDaemon == TRUE
\* threading.Thread(target=..., args=...) without daemon=True: the upload threads
\* are not daemon threads
UploadThreadsAreDaemon == FALSE

\* an upload thread that has not finished
UploadPending == \E i \in 1..Len(tasks) : tasks[i].pc \in {"put", "remove"}

\* __main__, after extractor.start() returned: the interpreter shuts down; it
\* first joins every thread that is not a daemon, then the process exits
interpreter_exit ==
    /\ mode = "stream" /\ pc = "terminated"
    /\ UploadThreadsAreDaemon \/ ~UploadPending
    /\ pc' = "exited"
    /\ tasks' = [i \in 1..Len(tasks) |->
                   IF tasks[i].pc \in {"put", "remove"}
                   THEN [tasks[i] EXCEPT !.pc = "interrupted"] ELSE tasks[i]]
    /\ log' = {}
    /\ unmaps' = 0
    /\ UNCHANGED <<cfgVars, keyVars, pace, imwrite, resVars, gstVars, watchVars, now,
                   frames, files, listing, lastOffload, osFault>>

-----------------------------------------------------------------------------
(* The pacing of the two capture loops *)

\* a cycle starts at time t: its cap.read() is called
CycleStarted(p, t) ==
    [p EXCEPT !.start = t, !.gap = IF p.start = -1 THEN -1 ELSE t - p.start]

\* the cycle that started at p.start sleeps `duration` at time t
CycleSlept(p, t, duration) ==
    [p EXCEPT !.work = t - p.start, !.sleep = duration]

Max0(x) == IF x > 0 THEN x ELSE 0

\* test.py, line 135: time.sleep(self.interval), whatever the cycle's work took
DeviceSleep(interval, elapsed) == interval

\* webcam-to-kvs.py, line 112: 1.0/self.fps, in ticks
FrameInterval(fps) == TicksPerSecond \div fps

\* webcam-to-kvs.py, line 112: max(0, 1.0/self.fps - (time.time() - start_time));
\* start_time is the start of the statistics window, not of the cycle
WebcamSleep(interval, t, start_time) == Max0(interval - (t - start_time))

-----------------------------------------------------------------------------
(* test.py *)

\* start_capture, lines 113-114, and initialize_webcam: open the device or give up
initialize_webcam ==
    /\ mode = "device" /\ pc = "init_cam"
    /\ \E opened \in BOOLEAN :
         IF opened
         THEN pc' = "capture" /\ log' = {"Starting webcam capture"}
         ELSE pc' = "returned" /\ log' = {"Error: Could not open webcam"}
    /\ unmaps' = 0
    /\ UNCHANGED <<cfgVars, keyVars,
                   pace, imwrite, resVars, gstVars, watchVars, now, frames, files, tasks,
                   listing, lastOffload, osFault>>

\* capture_and_upload, lines 69-86: read one frame and write it to /tmp
capture_and_upload_stage ==
    /\ mode = "device" /\ pc = "capture"
    /\ frames < MaxFrames
    /\ \E ret \in BOOLEAN, imw \in ImwriteOutcomes, elapsed \in ClockSteps :
         LET stamp == now + elapsed
             f == [name |-> stamp, ext |-> image_format]
         IN IF ~ret
            THEN /\ log' = {"Failed to capture frame"}
                 /\ pc' = "sleep"
                 /\ elapsed = 0
                 /\ UNCHANGED <<files, tasks, now, imwrite>>
            ELSE IF imw = "raise"
            THEN /\ log' = {"Capture stopped"}
                 /\ pc' = "aborted"
                 /\ now' = stamp
                 /\ imwrite' = imw
                 /\ UNCHANGED <<files, tasks>>
            ELSE /\ files' = IF imw = "ok" THEN files \cup {f} ELSE files
                 /\ tasks' = Append(tasks, NewTask(f, imw = "ok", DeviceAwaits))
                 /\ pc' = "offload"
                 /\ now' = stamp
                 /\ imwrite' = imw
                 /\ log' = {}
    /\ pace' = CycleStarted(pace, now)
    /\ frames' = frames + 1
    /\ unmaps' = 0
    /\ UNCHANGED <<cfgVars, keyVars, resVars, gstVars, watchVars, listing, lastOffload, osFault>>

DeviceAfterUploadErrorRaises == "aborted"
\* capture_and_upload, lines 107-109: the except clause logs and returns False,
\* start_capture goes on to the sleep at the end of its loop body
DeviceAfterUploadError == "sleep"

\* capture_and_upload, lines 89-101 and 107-109: the durable write, made inline
capture_and_upload_put ==
    /\ mode = "device" /\ pc = "offload"
    /\ tasks[Len(tasks)].pc = "put"
    /\ \E storeOk \in BOOLEAN :
         LET i == Len(tasks)
             t == [tasks[i] EXCEPT !.existed = tasks[i].file \in files]
             ok == PutSucceeds(t.existed, storeOk)
         IN IF ok
            THEN /\ tasks' = [tasks EXCEPT ![i] = [t EXCEPT !.pc = "remove"]]
                 /\ log' = {"Uploaded"}
                 /\ UNCHANGED <<files, lastOffload, pc>>
            ELSE /\ tasks' = [tasks EXCEPT ![i] = [t EXCEPT !.pc = "done"]]
                 /\ files' = AfterFailedPut(files, t.file)
                 /\ log' = {"Error uploading to S3"}
                 /\ lastOffload' = Finished(t, FALSE, "none", files')
                 /\ pc' = DeviceAfterUploadError
    /\ unmaps' = 0
    /\ UNCHANGED <<cfgVars, keyVars,
                   pace, imwrite, resVars, gstVars, watchVars, now, frames, listing, osFault>>

\* capture_and_upload, lines 103-109: os.remove of the uploaded file
capture_and_upload_remove ==
    /\ mode = "device" /\ pc = "offload"
    /\ tasks[Len(tasks)].pc = "remove"
    /\ \E fault \in BOOLEAN :
         LET i == Len(tasks)
             t == tasks[i]
             outcome == RemoveOutcome(t.file \in files, fault)
         IN /\ files' = AfterRemove(files, t.file, outcome)
            /\ tasks' = [tasks EXCEPT ![i].pc = "done"]
            /\ log' = IF outcome = "ok" THEN {} ELSE {"Error uploading to S3"}
            /\ osFault' = (osFault \/ outcome = "fault")
            /\ lastOffload' = Finished(t, TRUE, outcome, files')
            /\ pc' = IF outcome = "ok" THEN "sleep" ELSE DeviceAfterUploadError
    /\ unmaps' = 0
    /\ UNCHANGED <<cfgVars, keyVars,
                   pace, imwrite, resVars, gstVars, watchVars, now, frames, listing>>

\* start_capture, lines 128-135: statistics, then time.sleep(self.interval)
start_capture_sleep ==
    /\ mode = "device" /\ pc = "sleep"
    /\ pc' = "capture"
    /\ log' = {}
    /\ pace' = CycleSlept(pace, now, DeviceSleep(pace.interval, now - pace.start))
    /\ now' = now + pace'.sleep
    /\ unmaps' = 0
    /\ UNCHANGED <<cfgVars, keyVars, imwrite, resVars, gstVars, watchVars, frames, files, tasks,
                   listing, lastOffload, osFault>>

\* start_capture, lines 137-138: KeyboardInterrupt anywhere in the loop
KeyboardInterrupt_device ==
    /\ mode = "device" /\ pc \in {"capture", "offload", "sleep"}
    /\ tasks' = [i \in 1..Len(tasks) |->
                   IF tasks[i].pc = "done" THEN tasks[i]
                   ELSE [tasks[i] EXCEPT !.pc = "interrupted"]]
    /\ log' = {"Capture interrupted by user"}
    /\ pc' = "stop_capture"
    /\ unmaps' = 0
    /\ UNCHANGED <<cfgVars, keyVars,
                   pace, imwrite, resVars, gstVars, watchVars, now, frames, files, listing,
                   lastOffload, osFault>>

\* start_capture, lines 139-140, and stop_capture: release the device
stop_capture ==
    /\ mode = "device" /\ pc = "stop_capture"
    /\ log' = {"Capture stopped"}
    /\ pc' = "terminated"
    /\ unmaps' = 0
    /\ UNCHANGED <<cfgVars, keyVars,
                   pace, imwrite, resVars, gstVars, watchVars, now, frames, files, tasks,
                   listing, lastOffload, osFault>>

-----------------------------------------------------------------------------
(* webcam-to-kvs.py *)

\* start_streaming, lines 73-83, and initialize_webcam: open the device or give up
initialize_webcam_kvs ==
    /\ mode = "webcam" /\ pc = "open_cam"
    /\ \E opened \in BOOLEAN :
         IF opened
         THEN /\ pc' = "read"
              /\ pace' = [pace EXCEPT !.start_time = now, !.frame_count = 0]
              /\ log' = {"Starting stream"}
         ELSE /\ pc' = "returned"
              /\ pace' = pace
              /\ log' = {"Error: Could not open webcam"}
    /\ unmaps' = 0
    /\ UNCHANGED <<cfgVars, keyVars, imwrite, resVars, gstVars, watchVars, now, frames,
                   files, tasks, listing, lastOffload, osFault>>

\* start_streaming, lines 86-99: read one frame, encode it, send it to the stream
start_streaming_read ==
    /\ mode = "webcam" /\ pc = "read"
    /\ frames < MaxReads
    /\ \E ret \in BOOLEAN, work \in WorkSteps :
         IF ~ret
         THEN /\ log' = {"Failed to capture frame from webcam"}
              /\ pc' = "stop_streaming"
              /\ work = 0
              /\ now' = now
         ELSE /\ log' = {}
              /\ pc' = "pace"
              /\ now' = now + work
    /\ pace' = CycleStarted(pace, now)
    /\ frames' = frames + 1
    /\ unmaps' = 0
    /\ UNCHANGED <<cfgVars, keyVars, imwrite, resVars, gstVars, watchVars, files, tasks,
                   listing, lastOffload, osFault>>

\* start_streaming, lines 101-112: statistics every 5 seconds, then the sleep
start_streaming_pace ==
    /\ mode = "webcam" /\ pc = "pace"
    /\ LET elapsed_time == now - pace.start_time
           reset == elapsed_time >= StatsWindow
           start_time == IF reset THEN now ELSE pace.start_time
           frame_count == IF reset THEN 0 ELSE pace.frame_count + 1
           slept == CycleSlept(pace, now, WebcamSleep(pace.interval, now, start_time))
       IN /\ pace' = [slept EXCEPT !.start_time = start_time,
                                   !.frame_count = frame_count]
          /\ log' = IF reset THEN {"Streaming at FPS"} ELSE {}
    /\ now' = now + pace'.sleep
    /\ pc' = "read"
    /\ unmaps' = 0
    /\ UNCHANGED <<cfgVars, keyVars, imwrite, resVars, gstVars, watchVars, frames, files,
                   tasks, listing, lastOffload, osFault>>

\* start_streaming, lines 114-115: KeyboardInterrupt anywhere in the loop
KeyboardInterrupt_webcam ==
    /\ mode = "webcam" /\ pc \in {"read", "pace"}
    /\ log' = {"Streaming interrupted"}
    /\ pc' = "stop_streaming"
    /\ unmaps' = 0
    /\ UNCHANGED <<cfgVars, keyVars, pace, imwrite, resVars, gstVars, watchVars, now,
                   frames, files, tasks, listing, lastOffload, osFault>>

\* start_streaming, lines 116-117, and stop_streaming: stop the producer, release
stop_streaming ==
    /\ mode = "webcam" /\ pc = "stop_streaming"
    /\ log' = {"Streaming stopped"}
    /\ pc' = "terminated"
    /\ unmaps' = 0
    /\ UNCHANGED <<cfgVars, keyVars, pace, imwrite, resVars, gstVars, watchVars, now,
                   frames, files, tasks, listing, lastOffload, osFault>>

-----------------------------------------------------------------------------
(* The destination keys *)

RECURSIVE rstrip(_)
\* str.rstrip('/')
rstrip(str) ==
    IF Len(str) > 0 /\ SubSeq(str, Len(str), Len(str)) = "/"
    THEN rstrip(SubSeq(str, 1, Len(str) - 1))
    ELSE str

NormalisedPrefixVerbatim(prefix) == prefix
\* test.py line 36, s3-uploader.py line 36: prefix.rstrip('/') + '/'
NormalisedPrefix(prefix) == rstrip(prefix) \o "/"

\* os.path.join(self.watch_dir, filename), for a watch_dir without trailing slash
Join(watch_dir, name) == watch_dir \o "/" \o name

RECURSIVE basename(_)
\* os.path.basename: what follows the last slash
basename(path) ==
    IF Len(path) = 0 \/ SubSeq(path, Len(path), Len(path)) = "/"
    THEN ""
    ELSE basename(SubSeq(path, 1, Len(path) - 1)) \o SubSeq(path, Len(path), Len(path))

\* kvs-to-s3.py line 154: S3_PREFIX is used as it is configured
StreamKey(prefix, stream_name, stamp, format) ==
    prefix \o stream_name \o "/" \o stamp \o "." \o format

\* test.py lines 77 and 91
DeviceKey(prefix, stamp, format) ==
    NormalisedPrefix(prefix) \o FixedSubpath \o "/" \o (stamp \o "." \o format)

\* s3-uploader.py lines 74-80
WatchKey(prefix, stamp, path) ==
    NormalisedPrefix(prefix) \o FixedSubpath \o "/" \o stamp \o "_" \o basename(path)

\* upload_to_s3, lines 151-154, on the inputs drawn
upload_to_s3_key ==
    /\ mode = "key" /\ pc = "inputs"
    /\ s3_key' = StreamKey(s3_prefix, kvs_stream_name, timestamp, image_format)
    /\ pc' = "stream_key"
    /\ unmaps' = 0
    /\ UNCHANGED <<cfgVars, s3_prefix, timestamp, upload_path, pace, imwrite, resVars,
                   gstVars, watchVars, now, frames, files, tasks, listing, log,
                   lastOffload, osFault>>

\* capture_and_upload, lines 76-91, on the inputs drawn
capture_and_upload_key ==
    /\ mode = "key" /\ pc = "inputs"
    /\ s3_key' = DeviceKey(s3_prefix, timestamp, image_format)
    /\ pc' = "device_key"
    /\ unmaps' = 0
    /\ UNCHANGED <<cfgVars, s3_prefix, timestamp, upload_path, pace, imwrite, resVars,
                   gstVars, watchVars, now, frames, files, tasks, listing, log,
                   lastOffload, osFault>>

\* _upload_file, lines 74-80, on the inputs drawn
upload_file_key ==
    /\ mode = "key" /\ pc = "inputs"
    /\ s3_key' = WatchKey(s3_prefix, timestamp, upload_path)
    /\ pc' = "watch_key"
    /\ unmaps' = 0
    /\ UNCHANGED <<cfgVars, s3_prefix, timestamp, upload_path, pace, imwrite, resVars,
                   gstVars, watchVars, now, frames, files, tasks, listing, log,
                   lastOffload, osFault>>

-----------------------------------------------------------------------------
(* s3-uploader.py *)

\* str.lower() on the extensions that occur
Lower(e) ==
    CASE e = "JPG" -> "jpg"
      [] e = "JPEG" -> "jpeg"
      [] e = "PNG" -> "png"
      [] e = "TXT" -> "txt"
      [] OTHER -> e

ImageExtensions == {"jpg", "jpeg", "png"}

\* _is_image_file: file_path.lower().endswith(('.jpg', '.jpeg', '.png'))
is_image_file(file_path) == Lower(file_path.ext) \in ImageExtensions

Range(seq) == {seq[i] : i \in 1..Len(seq)}

AlreadyProcessedNever(src_path, processed) == FALSE
AlreadyProcessedFirstOnly(src_path, processed) ==
    Len(processed) > 0 /\ processed[1] = src_path
AlreadyProcessedLastOnly(src_path, processed) ==
    Len(processed) > 0 /\ processed[Len(processed)] = src_path
\* on_created, line 49: event.src_path in self.processed_files
AlreadyProcessed(src_path, processed) ==
    \E i \in 1..Len(processed) : processed[i] = src_path

\* _upload_file on one path: the local files afterwards
upload_file(fs, file_path, storeOk, fault, del) ==
    IF PutSucceeds(file_path \in fs, storeOk)
    THEN IF del
         THEN AfterRemove(fs, file_path, RemoveOutcome(file_path \in fs, fault))
         ELSE fs
    ELSE AfterFailedPut(fs, file_path)

\* what _upload_file did, for the record of the finished offload
upload_file_record(fs, file_path, storeOk, fault, del) ==
    LET ok == PutSucceeds(file_path \in fs, storeOk)
    IN [file |-> file_path, staged |-> file_path \in fs, existed |-> file_path \in fs,
        wrote |-> ok,
        removal |-> IF ~ok THEN "none"
                    ELSE IF ~del THEN "disabled"
                    ELSE RemoveOutcome(file_path \in fs, fault),
        existsAfter |-> file_path \in upload_file(fs, file_path, storeOk, fault, del)]

\* set.add of a path that is not in the set: a Python set keeps no insertion order,
\* the new entry can come anywhere in the iteration order; here first or last
SetAdd(processed, src_path, slot) ==
    IF slot = "back" THEN Append(processed, src_path) ELSE <<src_path>> \o processed

\* list(self.processed_files)[-500:], as a set again
LastOf(processed, keep) ==
    IF Len(processed) <= keep THEN processed
    ELSE SubSeq(processed, Len(processed) - keep + 1, Len(processed))

\* on_created, lines 62-63: truncate once the set holds more than 1000 paths
Evict(processed) ==
    IF Len(processed) > MaxProcessed THEN LastOf(processed, KeepProcessed) ELSE processed

\* the store's answers during the startup pass
StartupStoreOk(choice, i, n) ==
    CASE choice = "all_ok" -> TRUE
      [] choice = "last_fails" -> i # n
      [] OTHER -> FALSE

\* process_existing_files: upload every image file of the watched directory.
\* The files are numbered in the order os.listdir returns them.
process_existing_files ==
    /\ mode = "watch" /\ pc = "existing"
    /\ \E choice \in StartupStoreChoices, slot \in InsertSlots :
         LET entries == files \cup WatchSubdirs
             imgs == {e \in entries : e \in files /\ is_image_file(e)}
             n == Cardinality(imgs)
         IN /\ imgs = {ImagePath(i) : i \in 1..n}
            /\ files' = (files \ imgs) \cup
                  UNION {upload_file({ImagePath(i)}, ImagePath(i),
                                     StartupStoreOk(choice, i, n), FALSE,
                                     delete_after_upload) : i \in 1..n}
            /\ processed_files' =
                  IF slot = "back"
                  THEN processed_files \o [i \in 1..n |-> ImagePath(i)]
                  ELSE [i \in 1..n |-> ImagePath(n + 1 - i)] \o processed_files
            /\ attempts' = attempts \o [i \in 1..n |-> ImagePath(i)]
            /\ existing' = n
            /\ lastOffload' =
                  IF n = 0 THEN lastOffload
                  ELSE upload_file_record({ImagePath(n)}, ImagePath(n),
                                          StartupStoreOk(choice, n, n), FALSE,
                                          delete_after_upload)
            /\ log' = IF n = 0 \/ choice = "all_ok" THEN {} ELSE {"Error uploading"}
    /\ pc' = "watching"
    /\ unmaps' = 0
    /\ UNCHANGED <<cfgVars, keyVars,
                   pace, imwrite, resVars, gstVars, now, frames, tasks, listing, osFault,
                   evictedNow, evictions, events, lastEvent>>

\* on_created: the file appears, the observer delivers the event
on_created ==
    /\ mode = "watch" /\ pc = "watching"
    /\ events < MaxEvents
    /\ \E event \in Events :
         LET src_path == event.src_path
             created == IF event.is_directory THEN files ELSE files \cup {src_path}
         IN IF ~event.is_directory /\ is_image_file(src_path)
               /\ ~AlreadyProcessed(src_path, processed_files)
            THEN \E storeOk \in BOOLEAN, fault \in BOOLEAN, slot \in InsertSlots :
                   LET added == SetAdd(processed_files, src_path, slot)
                       done == upload_file_record(created, src_path, storeOk, fault,
                                                  delete_after_upload)
                   IN /\ files' = upload_file(created, src_path, storeOk, fault,
                                              delete_after_upload)
                      /\ lastOffload' = done
                      /\ osFault' = (osFault \/ done.removal = "fault")
                      /\ attempts' = Append(attempts, src_path)
                      /\ lastEvent' = [src_path |-> src_path,
                                       is_directory |-> event.is_directory,
                                       attempted |-> TRUE]
                      /\ processed_files' = Evict(added)
                      /\ evictedNow' = (Len(processed_files') # Len(added))
                      /\ evictions' = IF evictedNow' THEN evictions + 1 ELSE evictions
                      /\ log' = IF done.wrote /\ done.removal # "fault"
                                THEN {"Uploaded"} ELSE {"Error uploading"}
            ELSE /\ files' = created
                 /\ evictedNow' = FALSE
                 /\ log' = {}
                 /\ lastEvent' = [src_path |-> src_path,
                                  is_directory |-> event.is_directory,
                                  attempted |-> FALSE]
                 /\ UNCHANGED <<lastOffload, osFault, attempts, processed_files, evictions>>
    /\ events' = events + 1
    /\ existing' = existing
    /\ unmaps' = 0
    /\ UNCHANGED <<cfgVars, keyVars,
                   pace, imwrite, resVars, gstVars, pc, now, frames, tasks, listing>>

\* main, lines 153-155: KeyboardInterrupt ends the wait loop, the observer is stopped
KeyboardInterrupt_watch ==
    /\ mode = "watch" /\ pc = "watching"
    /\ pc' = "stop_observer"
    /\ log' = {"Stopping image uploader"}
    /\ evictedNow' = FALSE
    /\ unmaps' = 0
    /\ UNCHANGED <<cfgVars, keyVars,
                   pace, imwrite, resVars, gstVars, now, frames, files, tasks, listing,
                   lastOffload, osFault, processed_files, attempts, evictions, events,
                   lastEvent, existing>>

\* main, line 157: observer.join()
observer_join ==
    /\ mode = "watch" /\ pc = "stop_observer"
    /\ pc' = "terminated"
    /\ log' = {}
    /\ unmaps' = 0
    /\ UNCHANGED <<cfgVars, keyVars,
                   pace, imwrite, resVars, gstVars, watchVars, now, frames, files, tasks,
                   listing, lastOffload, osFault>>

-----------------------------------------------------------------------------
\* no destination key has been built
NoKeyBuilt == timestamp = "" /\ upload_path = "" /\ s3_key = ""

\* what every script starts from
InitCommon ==
    /\ gst_init = FALSE
    /\ temp_dir = FALSE
    /\ pipeline = "None"
    /\ streaming = FALSE
    /\ bus = {}
    /\ now = 0
    /\ frames = 0
    /\ tasks = <<>>
    /\ listing = {}
    /\ flow = "NONE"
    /\ log = {}
    /\ lastOffload = NoOffload
    /\ osFault = FALSE
    /\ processed_files = <<>>
    /\ attempts = <<>>
    /\ evictedNow = FALSE
    /\ evictions = 0
    /\ events = 0
    /\ lastEvent = NoEvent
    /\ existing = -1
    /\ imwrite = "none"
    /\ unmaps = 0

\* kvs-to-s3.py, line 225: about to construct the extractor
InitStream ==
    /\ mode = "stream"
    /\ pc = "ctor"
    /\ kvs_stream_name \in StreamNames
    /\ s3_bucket_name \in BucketNames
    /\ image_format \in Formats
    /\ delete_after_upload = TRUE
    /\ s3_client = FALSE
    /\ files = {}
    /\ pace = NoPace(0)
    /\ s3_prefix = "frames/"
    /\ NoKeyBuilt
    /\ InitCommon

\* test.py, lines 170-181: the uploader is constructed, start_capture is called
InitDevice ==
    /\ mode = "device"
    /\ pc = "init_cam"
    /\ kvs_stream_name = ""
    /\ s3_bucket_name = "bucket"
    /\ image_format \in Formats
    /\ delete_after_upload = TRUE
    /\ s3_client = TRUE
    /\ files = {}
    /\ \E interval \in Intervals : pace = NoPace(interval)
    /\ s3_prefix = "uploads/images/temp/"
    /\ NoKeyBuilt
    /\ InitCommon

\* s3-uploader.py, lines 132-141: the uploader is constructed over the watched directory
InitWatch ==
    /\ mode = "watch"
    /\ pc = "existing"
    /\ kvs_stream_name = ""
    /\ s3_bucket_name = "bucket"
    /\ image_format = "jpg"
    /\ delete_after_upload \in BOOLEAN
    /\ s3_client = TRUE
    /\ \E n \in InitialDirSizes : files = InitialDir(n)
    /\ pace = NoPace(0)
    /\ s3_prefix = "uploads/images/temp/"
    /\ NoKeyBuilt
    /\ InitCommon

\* webcam-to-kvs.py, lines 152-160: the streamer is constructed, start_streaming is called
InitWebcam ==
    /\ mode = "webcam"
    /\ pc = "open_cam"
    /\ kvs_stream_name = "cam1"
    /\ s3_bucket_name = ""
    /\ image_format = "jpg"
    /\ delete_after_upload = TRUE
    /\ s3_client = FALSE
    /\ files = {}
    /\ \E fps \in FpsChoices : pace = NoPace(FrameInterval(fps))
    /\ s3_prefix = ""
    /\ NoKeyBuilt
    /\ InitCommon

\* the inputs of the key builders
InitKey ==
    /\ mode = "key"
    /\ pc = "inputs"
    /\ kvs_stream_name \in StreamNames \ {""}
    /\ s3_bucket_name = "bucket"
    /\ image_format \in Formats
    /\ delete_after_upload = TRUE
    /\ s3_client = TRUE
    /\ files = {}
    /\ pace = NoPace(0)
    /\ s3_prefix \in Prefixes
    /\ timestamp \in Timestamps
    /\ \E watch_dir \in WatchDirs, name \in Filenames : upload_path = Join(watch_dir, name)
    /\ s3_key = ""
    /\ InitCommon

Init == InitStream \/ InitDevice \/ InitWatch \/ InitWebcam \/ InitKey

NextStream ==
    \/ KVSToS3ImageExtractor_init
    \/ build_pipeline
    \/ start_playing
    \/ on_new_sample
    \/ \E i \in 1..Len(tasks) : upload_to_s3_put(i)
    \/ \E i \in 1..Len(tasks) : upload_to_s3_remove(i)
    \/ SourceMessage
    \/ on_error
    \/ on_eos
    \/ KeyboardInterrupt_stream
    \/ cleanup_stop_pipeline
    \/ cleanup_listdir
    \/ cleanup_remove
    \/ cleanup_rmdir
    \/ interpreter_exit

NextDevice ==
    \/ initialize_webcam
    \/ capture_and_upload_stage
    \/ capture_and_upload_put
    \/ capture_and_upload_remove
    \/ start_capture_sleep
    \/ KeyboardInterrupt_device
    \/ stop_capture

NextWatch ==
    \/ process_existing_files
    \/ on_created
    \/ KeyboardInterrupt_watch
    \/ observer_join

NextWebcam ==
    \/ initialize_webcam_kvs
    \/ start_streaming_read
    \/ start_streaming_pace
    \/ KeyboardInterrupt_webcam
    \/ stop_streaming

NextKey ==
    \/ upload_to_s3_key
    \/ capture_and_upload_key
    \/ upload_file_key

Next == NextStream \/ NextDevice \/ NextWatch \/ NextWebcam \/ NextKey

\* every script
Spec == Init /\ [][Next]_vars
\* kvs-to-s3.py alone
SpecStream == InitStream /\ [][NextStream]_vars
\* test.py alone
SpecDevice == InitDevice /\ [][NextDevice]_vars
\* s3-uploader.py alone
SpecWatch == InitWatch /\ [][NextWatch]_vars
\* webcam-to-kvs.py alone
SpecWebcam == InitWebcam /\ [][NextWebcam]_vars
\* the key builders alone
SpecKey == InitKey /\ [][NextKey]_vars

\* kvs-to-s3.py alone; the main thread, once in cleanup, runs each of its steps
FairSpecStream ==
    /\ SpecStream
    /\ WF_vars(cleanup_stop_pipeline)
    /\ WF_vars(cleanup_listdir)
    /\ WF_vars(cleanup_remove)
    /\ WF_vars(cleanup_rmdir)

\* and its main loop, while it runs, dispatches the bus messages that are pending
FairSpecStreamLoop ==
    /\ FairSpecStream
    /\ WF_vars(on_error)
    /\ WF_vars(on_eos)

-----------------------------------------------------------------------------
(* The claims *)

OffloadFinished == lastOffload # NoOffload

\* C1, as stated: in every mode and for every configuration, once the durable
\* write of a staged artifact has succeeded, the local file no longer exists when
\* the offload operation has finished.
C1_Original ==
    (OffloadFinished /\ lastOffload.wrote) => ~lastOffload.existsAfter

\* C1, amended: after a successful durable write the local file no longer exists
\* when the offload has finished, except in watch mode run with --keep-files
\* (delete_after_upload false), where no removal is attempted, and except when
\* os.remove fails on the file although it exists (logged, the file stays).
C1_Amended ==
    /\ (OffloadFinished /\ lastOffload.wrote /\ lastOffload.removal \notin {"disabled", "fault"})
          => ~lastOffload.existsAfter
    /\ (OffloadFinished /\ lastOffload.removal = "disabled")
          => (mode = "watch" /\ ~delete_after_upload)

C1_Witness ==
    /\ OffloadFinished /\ lastOffload.staged /\ lastOffload.wrote
    /\ lastOffload.removal = "ok" /\ ~lastOffload.existsAfter

C3_ScratchRemoved ==
    (mode = "stream" /\ pc = "terminated" /\ ~osFault) => (files = {} /\ ~temp_dir)

\* C4: in managed-stream mode, once the control thread is Draining it reaches
\* Terminated: a removal that fails during the sweep is logged, never raised.
C4_DrainingTerminates ==
    (mode = "stream" /\ Lifecycle = "Draining") ~> (Lifecycle = "Terminated")

C4_Witness ==
    /\ mode = "stream" /\ pc = "terminated"
    /\ "Failed to clean up temporary directory" \in log

UploadFailureLogs == {"Failed to upload to S3", "Error uploading to S3", "Error uploading"}

\* C6: a step in which an upload fails leaves a Running control loop Running,
\* takes the process into no shutdown or abort state, posts nothing to the bus
\* and does not stop the source.
C6_FailureContained ==
    [][(log' \cap UploadFailureLogs # {})
          => /\ Lifecycle = "Running" => Lifecycle' = "Running"
             /\ Lifecycle' \in {"Draining", "Terminated", "Returned", "Aborted"}
                   => Lifecycle' = Lifecycle
             /\ bus' = bus
             /\ streaming' = streaming]_vars

\* device-capture mode: the first upload failed and the next frame is being handled
C6_Witness ==
    /\ mode = "device" /\ Len(tasks) = 2
    /\ tasks[1].pc = "done" /\ tasks[1].existed
    /\ lastOffload.file = tasks[1].file /\ ~lastOffload.wrote
    /\ tasks[2].file # tasks[1].file
    /\ Lifecycle = "Running"

\* C7, as stated: in watch mode the dedup set never holds more than 1000 entries,
\* after any sequence of the startup pass and file-create events.
C7_AtMost1000 ==
    mode = "watch" => Len(processed_files) <= MaxProcessed

\* the paths _upload_file was called for most recently, `keep` of them
MostRecent(keep) ==
    {attempts[i] : i \in (IF Len(attempts) > keep THEN Len(attempts) - keep + 1 ELSE 1)
                          ..Len(attempts)}

\* C8, as stated: right after on_created evicted, the dedup set holds exactly 500
\* entries, the 500 most recently inserted paths, the path of that call among them.
C8_KeepsMostRecent ==
    evictedNow =>
        /\ Len(processed_files) = KeepProcessed
        /\ Range(processed_files) = MostRecent(KeepProcessed)
        /\ lastEvent.src_path \in Range(processed_files)

\* C9: in watch mode, as long as no eviction has happened, no path was handed to
\* _upload_file twice, the image path of the event handled last has had its
\* attempt, and the dedup set holds exactly the attempted paths.
C9_OneAttemptPerPath ==
    (mode = "watch" /\ evictions = 0) =>
        /\ Cardinality(Range(attempts)) = Len(attempts)
        /\ Len(processed_files) = Len(attempts)
        /\ (lastEvent # NoEvent /\ ~lastEvent.is_directory /\ is_image_file(lastEvent.src_path))
              => lastEvent.src_path \in Range(attempts)

\* a second event for a path whose upload had failed: no further attempt
C9_Witness ==
    /\ mode = "watch" /\ evictions = 0 /\ events = 2
    /\ ~lastEvent.is_directory /\ is_image_file(lastEvent.src_path)
    /\ ~lastEvent.attempted
    /\ lastOffload.file = lastEvent.src_path /\ ~lastOffload.wrote
    /\ Len(attempts) >= 2

\* C10, as stated: on a buffer that cannot be mapped, on_new_sample logs one
\* diagnostic and returns the continue status: the source keeps streaming and no
\* error is posted to the bus.
C10_UnmappableContinues ==
    (mode = "stream" /\ "Failed to map buffer" \in log)
        => (flow = "OK" /\ streaming /\ "error" \notin bus)

ReadFailureLogs == {"Failed to capture frame", "Failed to capture frame from webcam"}

\* C11, as stated: in the device-capture loops a failed device read is logged and
\* the loop goes on: right after the failure the control loop is still Running.
C11_ReadFailureContinues ==
    (mode \in {"device", "webcam"} /\ log \cap ReadFailureLogs # {})
        => Lifecycle = "Running"

\* C12, as stated: in the device-capture loops, once a second capture has started,
\* the time between its start and the start of the capture before it is at least
\* the interval minus the time the work of the cycle before took.
C12_GapAtLeastInterval ==
    (mode \in {"device", "webcam"} /\ pc \in {"offload", "sleep", "pace"}
       /\ pace.gap # -1)
        => pace.gap >= pace.interval - pace.work

\* C13, as stated: the sleep issued at the end of a device-capture cycle is
\* max(0, T - elapsed) for the work elapsed in that same cycle: never negative,
\* 0 when elapsed >= T, shorter than T when the work took time.
C13_SleepCompensates ==
    (mode \in {"device", "webcam"} /\ pace.sleep # -1) =>
        /\ pace.sleep = Max0(pace.interval - pace.work)
        /\ pace.sleep >= 0
        /\ (pace.work >= pace.interval => pace.sleep = 0)
        /\ (pace.work > 0 => pace.sleep < pace.interval)

\* C14, as stated: the destination key is exactly prefix + identifier + "/" +
\* timestamp + "." + extension in stream and device mode (the identifier of device
\* mode being its fixed subpath) and exactly prefix + fixed-subpath + "/" +
\* timestamp + "_" + original-filename in watch mode, for every prefix.
C14_Original ==
    /\ (mode = "key" /\ pc = "stream_key") =>
          s3_key = s3_prefix \o kvs_stream_name \o "/" \o timestamp \o "." \o image_format
    /\ (mode = "key" /\ pc = "device_key") =>
          s3_key = s3_prefix \o FixedSubpath \o "/" \o timestamp \o "." \o image_format
    /\ (mode = "key" /\ pc = "watch_key") =>
          \E watch_dir \in WatchDirs, name \in Filenames :
             /\ upload_path = Join(watch_dir, name)
             /\ s3_key = s3_prefix \o FixedSubpath \o "/" \o timestamp \o "_" \o name

\* C14, amended: in stream mode the key is exactly prefix + stream name + "/" +
\* timestamp + "." + extension, the prefix taken as configured (frames/, cam1,
\* 20240101_120000_000000, jpg give frames/cam1/20240101_120000_000000.jpg).  In
\* device and watch mode the prefix is first normalised to end in exactly one
\* slash (trailing slashes stripped, one appended) and the fixed subpath
\* sPotVideoAnalysis takes the place of an identifier: the key is normalised
\* prefix + "sPotVideoAnalysis/" + timestamp + "." + extension in device mode and
\* normalised prefix + "sPotVideoAnalysis/" + timestamp + "_" + file name in
\* watch mode.
C14_Amended ==
    /\ StreamKey("frames/", "cam1", "20240101_120000_000000", "jpg")
          = "frames/cam1/20240101_120000_000000.jpg"
    /\ (mode = "key" /\ pc = "stream_key") =>
          s3_key = s3_prefix \o kvs_stream_name \o "/" \o timestamp \o "." \o image_format
    /\ (mode = "key" /\ pc = "device_key") =>
          \E stem \in PrefixStems :
             /\ s3_prefix \in {stem, stem \o "/", stem \o "//"}
             /\ s3_key = stem \o "/sPotVideoAnalysis/" \o timestamp \o "." \o image_format
    /\ (mode = "key" /\ pc = "watch_key") =>
          \E stem \in PrefixStems, watch_dir \in WatchDirs, name \in Filenames :
             /\ s3_prefix \in {stem, stem \o "/", stem \o "//"}
             /\ upload_path = Join(watch_dir, name)
             /\ s3_key = stem \o "/sPotVideoAnalysis/" \o timestamp \o "_" \o name

\* a device-mode key built from a prefix configured without its trailing slash
C14_Witness ==
    /\ mode = "key" /\ pc = "device_key" /\ s3_prefix = "frames"
    /\ s3_key = "frames/sPotVideoAnalysis/20240101_120000_000000.jpg"

\* C15: in managed-stream mode every way out of Running (end of stream, bus error,
\* operator interrupt, alone or with others pending) goes to Draining and on to
\* Terminated; cleanup is entered only from the running loop, which is never
\* entered again, so it runs once; nothing follows Terminated.
C15_TriggersDrainOnce ==
    /\ [][(mode = "stream" /\ pc = "loop" /\ pc' # "loop") => Lifecycle' = "Draining"]_vars
    /\ [][(mode = "stream" /\ pc' = "stop_pipeline") => pc \in {"loop", "stop_pipeline"}]_vars
    /\ [][(mode = "stream" /\ pc' = "loop") => pc \in {"play", "loop"}]_vars
    /\ [][(mode = "stream" /\ Lifecycle = "Draining")
             => Lifecycle' \in {"Draining", "Terminated"}]_vars
    /\ [][(mode = "stream" /\ Lifecycle = "Terminated") => Lifecycle' = "Terminated"]_vars
    /\ (mode = "stream" /\ pc = "loop" /\ bus # {}) ~> (Lifecycle = "Terminated")

\* terminated after an error message was handled with the end of stream still pending
C15_Witness ==
    /\ mode = "stream" /\ Lifecycle = "Terminated"
    /\ bus = {"eos"} /\ ~temp_dir

\* the image files the startup pass found are ImagePath(1) .. ImagePath(existing)
StartupPath(path) == path.ext = "jpg" /\ path.name \in 1..existing

\* C16, as stated: in watch mode every image file present at startup gets exactly
\* one upload attempt, these attempts all come before the first file-create event
\* is handled, and a later create event for such a path causes no second attempt.
C16_Original ==
    mode = "watch" =>
        /\ pc = "existing" => (events = 0 /\ attempts = <<>>)
        /\ existing # -1 =>
              /\ Len(attempts) >= existing
              /\ \A i \in 1..existing : attempts[i] = ImagePath(i)
              /\ \A j \in (existing + 1)..Len(attempts) : ~StartupPath(attempts[j])

\* C16, amended: every image file present at startup gets its upload attempt in
\* the startup pass, before the first file-create event is handled, and a later
\* create event for such a path causes no second attempt as long as the dedup set
\* has not been truncated; after a truncation a path that was dropped is
\* attempted again when a create event names it.
C16_Amended ==
    mode = "watch" =>
        /\ pc = "existing" => (events = 0 /\ attempts = <<>>)
        /\ existing # -1 =>
              /\ Len(attempts) >= existing
              /\ \A i \in 1..existing : attempts[i] = ImagePath(i)
              /\ evictions = 0 =>
                    \A j \in (existing + 1)..Len(attempts) : ~StartupPath(attempts[j])

\* a create event for a file of the startup pass was handled without an attempt
C16_Witness ==
    /\ mode = "watch" /\ existing >= 2 /\ evictions = 0
    /\ lastEvent.src_path = ImagePath(1) /\ ~lastEvent.attempted
    /\ Len(attempts) = existing

\* C17, as stated: a staging failure (cv2.imwrite fails, by its return value or
\* by an exception) is contained per frame in managed-stream and device-capture
\* mode: the run is not aborted by it.
C17_StagingContained ==
    (mode \in {"stream", "device"} /\ imwrite \in {"false", "raise"})
        => Lifecycle # "Aborted"

StartupFailureLogs ==
    {"Error: Could not open webcam", "Failed to build pipeline", "Failed to start pipeline"}

\* C18, as stated: an unrecoverable startup error (device open failure, pipeline
\* build or start failure) ends the run with a logged error and a failure exit
\* status, never the status of a clean shutdown.
C18_StartupFailureAborts ==
    (log \cap StartupFailureLogs # {}) => ExitCode = 1

\* C19: in managed-stream mode a missing stream name or bucket makes the
\* constructor raise, and when it has raised no store client was created, the
\* media framework was not initialised and no scratch directory exists.
C19_ConfigErrorBeforeResources ==
    (mode = "stream" /\ pc # "ctor" /\ (kvs_stream_name = "" \/ s3_bucket_name = ""))
        => (pc = "aborted" /\ ~s3_client /\ ~gst_init /\ ~temp_dir)

C19_Witness ==
    /\ mode = "stream" /\ pc = "aborted"
    /\ kvs_stream_name = "cam1" /\ s3_bucket_name = ""

\* C20, as stated: in managed-stream mode the scratch directory made by the
\* constructor is gone whenever start() has returned, also when the pipeline
\* could not be built or set to playing.
C20_ScratchRemovedOnReturn ==
    (mode = "stream" /\ pc \in {"returned", "terminated"} /\ ~osFault) => ~temp_dir

\* C21, as stated: an on_new_sample call unmaps the buffer exactly once when the
\* mapping succeeded, on the normal and on the exception path, and never when the
\* mapping failed.
C21_UnmapMatchesMap ==
    mode = "stream" =>
        /\ (log \cap {"Extracted image", "Error processing frame"} # {}) => unmaps = 1
        /\ ("Failed to map buffer" \in log) => unmaps = 0

\* C22, as stated: in managed-stream mode upload tasks in flight are not awaited:
\* once cleanup is done and start() has returned, the process can terminate,
\* whether an upload task is still pending or not.
C22_Original ==
    (mode = "stream" /\ pc = "terminated") => ENABLED interpreter_exit

\* C22, amended: in managed-stream mode, after an operator interrupt (as after any
\* other trigger) cleanup neither cancels nor waits for upload tasks in flight:
\* each of its steps can run while one is pending, and start() returns with
\* uploads pending.  The process does not terminate then: the upload threads are
\* not daemon threads, the interpreter joins them at exit, and the process has
\* exited only when every upload task has finished.
C22_Amended ==
    mode = "stream" =>
        /\ \A i \in 1..Len(tasks) : tasks[i].pc # "interrupted"
        /\ pc = "stop_pipeline" => ENABLED cleanup_stop_pipeline
        /\ pc = "listdir" => ENABLED cleanup_listdir
        /\ pc = "sweep" => ENABLED cleanup_remove
        /\ pc = "rmdir" => ENABLED cleanup_rmdir
        /\ (pc = "terminated" /\ UploadPending) => ~ENABLED interpreter_exit
        /\ pc = "exited" => \A i \in 1..Len(tasks) : tasks[i].pc = "done"

\* the interrupt has just been taken with an upload in flight, and cleanup can start
C22_Witness ==
    /\ mode = "stream" /\ "Received keyboard interrupt" \in log
    /\ UploadPending /\ ENABLED cleanup_stop_pipeline

\* C23, as stated: in managed-stream mode an upload task is started only for an
\* artifact whose file was written to the scratch directory: none when
\* cv2.imwrite raised, none when it returned False.
C23_UploadOnlyWritten ==
    mode = "stream" => \A i \in 1..Len(tasks) : tasks[i].staged

\* C24: in watch mode on_created changes nothing for an ignored event: for a
\* directory, for a path whose extension is not jpg, jpeg or png in any case, or
\* for a path in the dedup set, it attempts no upload, deletes no file and leaves
\* the dedup set as it is.
C24_IgnoredEventChangesNothing ==
    [][(mode = "watch" /\ events' = events + 1
          /\ \/ lastEvent'.is_directory
             \/ lastEvent'.src_path.ext \notin {"jpg", "jpeg", "png", "JPG", "JPEG", "PNG"}
             \/ lastEvent'.src_path \in Range(processed_files))
        => /\ ~lastEvent'.attempted
           /\ attempts' = attempts
           /\ lastOffload' = lastOffload
           /\ files \subseteq files'
           /\ processed_files' = processed_files
           /\ evictions' = evictions]_vars

\* a create event for a file that is no image was handled after another event
C24_Witness ==
    /\ mode = "watch" /\ events = 2
    /\ lastEvent.src_path.ext = "txt" /\ ~lastEvent.attempted
    /\ lastEvent.src_path \in files
====
